---- MODULE Spec2Model ----
(***************************************************************************)
(* Model of lemon/euler.h: the Euler tour iterators DiEulerIt (digraphs)   *)
(* and EulerIt (undirected graphs), and the two eulerian() predicates.     *)
(*                                                                         *)
(* A graph is N nodes 1..N, enumerated by NodeIt in increasing order, and  *)
(* M arcs/edges 1..M.  Entry e of arcSrc/arcTgt gives the two end nodes.   *)
(* An Arc value is a pair <<e, d>>: in a digraph d is always 1 and the arc *)
(* goes arcSrc[e] -> arcTgt[e]; in an undirected graph edge e has the two  *)
(* arcs <<e,1>> (arcSrc[e] -> arcTgt[e]) and <<e,0>> (the reverse).        *)
(* Out-arcs are enumerated in increasing arc number; an edge takes its     *)
(* place in the out-lists of both of its ends by its number, as in LEMON's *)
(* list graphs, where addEdge links both arcs at creation.  Init ranges    *)
(* over all such graphs up to the naming of the arcs.  outList holds the   *)
(* out-lists of the graph, one sequence of arcs per node.                  *)
(* The caller holds emitted (the arcs drawn so far), result (what a call   *)
(* of eulerian() returned, <<>> before the call) and seen (what the        *)
(* conversions and comparisons returned since the last advance).           *)
(***************************************************************************)
EXTENDS Integers, Sequences, FiniteSets, TLC

\* Bounds of the model.
MaxNodes == 3
MaxArcs == 3

VARIABLES kind, nodeNum, arcSrc, arcTgt, outList, pc, start, nedge, visited, euler,
          emitted, result, seen

vars ==
  <<kind, nodeNum, arcSrc, arcTgt, outList, pc, start, nedge, visited, euler, emitted,
    result, seen>>

graph == <<kind, nodeNum, arcSrc, arcTgt, outList>>

\* The INVALID sentinel, as a Node (0) and as an Arc (<<0,0>>).
INVALID == 0
INVALID_ARC == <<0, 0>>

Nodes == 1..nodeNum
arcNum == Len(arcSrc)
Edges == 1..arcNum

----------------------------------------------------------------------------
\* Graph access (the GR template parameter).

\* NodeIt: first node and successor in enumeration order.
FirstNode == IF nodeNum >= 1 THEN 1 ELSE INVALID
NextNode(n) == IF n < nodeNum THEN n + 1 ELSE INVALID

source(a) == IF a[2] = 1 THEN arcSrc[a[1]] ELSE arcTgt[a[1]]
target(a) == IF a[2] = 1 THEN arcTgt[a[1]] ELSE arcSrc[a[1]]

\* Conversion Arc -> Edge.
edge(a) == a[1]

\* ArcIt: all arcs of the graph.
AllArcs ==
  IF kind = "DiEulerIt"
    THEN [i \in 1..arcNum |-> <<i, 1>>]
    ELSE [i \in 1..(2 * arcNum) |-> <<(i + 1) \div 2, i % 2>>]

ArcSet == {AllArcs[i] : i \in DOMAIN AllArcs}

\* The out-list the graph keeps for node n: its outgoing arcs in enumeration
\* order.  A self-loop of an undirected graph appears with both of its arcs.
OutListOf(n) == SelectSeq(AllArcs, LAMBDA a : source(a) = n)

\* OutArcIt(g,n) runs through the out-list of n.
OutArcs(n) == outList[n]

countOutArcs(n) == Cardinality({e \in Edges : arcSrc[e] = n})
countInArcs(n) == Cardinality({e \in Edges : arcTgt[e] = n})
\* IncEdgeIt iterates a loop edge twice.
countIncEdges(n) == Len(OutArcs(n))

\* connected(): every node is reached from the first one, directions ignored.
Neighbours(S) ==
  S \cup {arcTgt[e] : e \in {x \in Edges : arcSrc[x] \in S}}
    \cup {arcSrc[e] : e \in {x \in Edges : arcTgt[x] \in S}}

RECURSIVE Reach(_)
Reach(S) == IF Neighbours(S) = S THEN S ELSE Reach(Neighbours(S))

connected == nodeNum = 0 \/ Reach({FirstNode}) = Nodes

----------------------------------------------------------------------------
\* eulerian(), undirected and directed overloads.

\* Variant: the loop returns after its first node.
eulerianUndirScanOne(n) ==
  IF n = INVALID THEN connected
  ELSE countIncEdges(n) % 2 = 0 /\ connected

RECURSIVE eulerianUndirScan(_)
eulerianUndirScan(n) ==
  IF n = INVALID THEN connected
  ELSE IF countIncEdges(n) % 2 # 0 THEN FALSE
  ELSE eulerianUndirScan(NextNode(n))

eulerianUndir == eulerianUndirScan(FirstNode)

\* Variant: the loop returns after its first node.
eulerianDirScanOne(n) ==
  IF n = INVALID THEN connected
  ELSE countInArcs(n) = countOutArcs(n) /\ connected

RECURSIVE eulerianDirScan(_)
eulerianDirScan(n) ==
  IF n = INVALID THEN connected
  ELSE IF countInArcs(n) # countOutArcs(n) THEN FALSE
  ELSE eulerianDirScan(NextNode(n))

eulerianDir == eulerianDirScan(FirstNode)

----------------------------------------------------------------------------
\* Cursors: nedge[n] is a position in OutArcs(n); a position past the end
\* is the INVALID OutArcIt.

CursorValid(ne, n) == ne[n] <= Len(OutArcs(n))
CursorArc(ne, n) == IF CursorValid(ne, n) THEN OutArcs(n)[ne[n]] ELSE INVALID_ARC
\* Variant: the cursor moves two positions.
CursorIncTwo(ne, n) == [ne EXCEPT ![n] = @ + 2]
CursorInc(ne, n) == [ne EXCEPT ![n] = @ + 1]

\* nedge(g): the node map before line 87/186 assigns it (never read then).
DefaultCursors == [n \in Nodes |-> 0]
\* for (NodeIt n(g); n!=INVALID; ++n) nedge[n]=OutArcIt(g,n);
FirstCursors == [n \in Nodes |-> 1]

\* Variant: the arc is put at the front of the trail.
PushFront(eu, a) == <<a>> \o eu

\* std::list operations on the trail.
PushBack(eu, a) == Append(eu, a)
\* Variant: the front arc is not removed.
PopFrontKeep(eu) == eu
PopFront(eu) == Tail(eu)
\* Variant: the arc is appended at the tail instead of spliced.
InsertAtTail(eu, next, a) == Append(eu, a)
\* euler.insert(next, a): a goes before position next.
InsertAt(eu, next, a) ==
  SubSeq(eu, 1, next - 1) \o <<a>> \o SubSeq(eu, next, Len(eu))

\* Variant: the conversion returns the arc at the back of the trail.
CurrentBack(eu) == IF eu = <<>> THEN INVALID_ARC ELSE eu[Len(eu)]

\* operator Arc, operator==(Invalid), operator!=(Invalid).
Current(eu) == IF eu = <<>> THEN INVALID_ARC ELSE Head(eu)
\* Variant: the comparison is inverted.
EqInvalidNegated(eu) == eu # <<>>
EqInvalid(eu) == eu = <<>>
NeInvalid(eu) == eu # <<>>
\* EulerIt::operator Edge.
CurrentEdge(eu) == IF eu = <<>> THEN INVALID ELSE edge(Head(eu))

\* Variant: the scan does not skip nodes without out-arcs.
ScanStartFirst(n) == n

\* NodeIt n(g); while (n!=INVALID && OutArcIt(g,n)==INVALID) ++n;
RECURSIVE ScanStart(_)
ScanStart(n) ==
  IF n # INVALID /\ OutArcs(n) = <<>> THEN ScanStart(NextNode(n)) ELSE n

\* Variant: the scan also replaces a given start without out-arcs.
ChooseStartFallback(st) ==
  IF st = INVALID \/ OutArcs(st) = <<>> THEN ScanStart(FirstNode) ELSE st
\* Variant: the start argument is ignored.
ChooseStartIgnoreArg(st) == ScanStart(FirstNode)

\* if (start==INVALID) { ... start=n; }
ChooseStart(st) == IF st = INVALID THEN ScanStart(FirstNode) ELSE st

----------------------------------------------------------------------------
\* DiEulerIt

\* The loops are recursive functions of the loop's variables: the node s
\* (start, resp. s), the cursor map, the trail and the iterator next.
DiCtorLoopStates == [s : Nodes, nedge : [Nodes -> Nat], euler : Seq(Nat \X {0, 1})]
DiIncLoopStates ==
  [s : Nodes, nedge : [Nodes -> Nat], euler : Seq(Nat \X {0, 1}), next : Nat]

\* Constructor, lines 88-93: the initial walk, appending at the tail.
DiCtorWalk[w \in DiCtorLoopStates] ==
  IF CursorValid(w.nedge, w.s)
    THEN DiCtorWalk[[s |-> target(CursorArc(w.nedge, w.s)),
                     nedge |-> CursorInc(w.nedge, w.s),
                     euler |-> PushBack(w.euler, CursorArc(w.nedge, w.s))]]
    ELSE w

\* Constructor, lines 78-95.
DiCtor(st) ==
  IF ChooseStart(st) # INVALID
    THEN DiCtorWalk[[s |-> ChooseStart(st), nedge |-> FirstCursors, euler |-> <<>>]]
    ELSE [s |-> INVALID, nedge |-> DefaultCursors, euler |-> <<>>]

\* operator++, lines 109-114: the walk from s, each arc inserted before next.
DiIncWalk[w \in DiIncLoopStates] ==
  IF CursorValid(w.nedge, w.s)
    THEN DiIncWalk[[s |-> target(CursorArc(w.nedge, w.s)),
                    nedge |-> CursorInc(w.nedge, w.s),
                    euler |-> InsertAt(w.euler, w.next, CursorArc(w.nedge, w.s)),
                    next |-> w.next + 1]]
    ELSE w

\* Variant: operator++ only removes the front arc.
DiIncNoWalk(ne, eu) == [s |-> target(Head(eu)), nedge |-> ne, euler |-> PopFront(eu), next |-> 1]

\* operator++, lines 103-116.
DiInc(ne, eu) ==
  DiIncWalk[[s |-> target(Head(eu)), nedge |-> ne, euler |-> PopFront(eu), next |-> 1]]

----------------------------------------------------------------------------
\* EulerIt

\* Variant: visited arcs are not skipped.
SkipVisitedNone(ne, vis, s) == ne

\* while(nedge[s]!=INVALID && visited[nedge[s]]) ++nedge[s];
SkipVisited(ne, vis, s) ==
  LET skip[c \in [Nodes -> Nat]] ==
        IF CursorValid(c, s) /\ vis[edge(CursorArc(c, s))]
          THEN skip[CursorInc(c, s)]
          ELSE c
  IN skip[ne]

\* Variant: the edge is not marked.
MarkVisitedNone(vis, a) == vis

\* visited[nedge[s]]=true;
MarkVisited(vis, a) == [vis EXCEPT ![edge(a)] = TRUE]

UCtorLoopStates ==
  [s : Nodes, nedge : [Nodes -> Nat], visited : [Edges -> BOOLEAN],
   euler : Seq(Nat \X {0, 1})]
UIncLoopStates ==
  [s : Nodes, nedge : [Nodes -> Nat], visited : [Edges -> BOOLEAN],
   euler : Seq(Nat \X {0, 1}), next : Nat]

\* Constructor, lines 187-194.
UCtorWalk[w \in UCtorLoopStates] ==
  IF CursorValid(w.nedge, w.s)
    THEN UCtorWalk[[s |-> target(CursorArc(w.nedge, w.s)),
                    nedge |-> SkipVisited(CursorInc(w.nedge, w.s),
                                          MarkVisited(w.visited, CursorArc(w.nedge, w.s)),
                                          target(CursorArc(w.nedge, w.s))),
                    visited |-> MarkVisited(w.visited, CursorArc(w.nedge, w.s)),
                    euler |-> PushBack(w.euler, CursorArc(w.nedge, w.s))]]
    ELSE w

NoneVisited == [e \in Edges |-> FALSE]

\* Constructor, lines 177-196.
UCtor(st) ==
  IF ChooseStart(st) # INVALID
    THEN UCtorWalk[[s |-> ChooseStart(st), nedge |-> FirstCursors,
                    visited |-> NoneVisited, euler |-> <<>>]]
    ELSE [s |-> INVALID, nedge |-> DefaultCursors, visited |-> NoneVisited,
          euler |-> <<>>]

\* operator++, lines 213-223: the outer loop; each round first skips the
\* visited arcs at s and leaves the loop if none is left.
UIncWalk[w \in UIncLoopStates] ==
  IF CursorValid(w.nedge, w.s)
    THEN IF ~CursorValid(SkipVisited(w.nedge, w.visited, w.s), w.s)
      THEN [w EXCEPT !.nedge = SkipVisited(w.nedge, w.visited, w.s)]
      ELSE UIncWalk[[s |-> target(CursorArc(SkipVisited(w.nedge, w.visited, w.s), w.s)),
                     nedge |-> CursorInc(SkipVisited(w.nedge, w.visited, w.s), w.s),
                     visited |-> MarkVisited(w.visited,
                                   CursorArc(SkipVisited(w.nedge, w.visited, w.s), w.s)),
                     euler |-> InsertAt(w.euler, w.next,
                                   CursorArc(SkipVisited(w.nedge, w.visited, w.s), w.s)),
                     next |-> w.next + 1]]
    ELSE w

\* Variant: operator++ only removes the front arc.
UIncNoWalk(ne, vis, eu) == [nedge |-> ne, visited |-> vis, euler |-> PopFront(eu)]

\* operator++, lines 208-225.
UInc(ne, vis, eu) ==
  UIncWalk[[s |-> target(Head(eu)), nedge |-> ne, visited |-> vis,
            euler |-> PopFront(eu), next |-> 1]]

----------------------------------------------------------------------------
\* The state machine: a graph is given, one iterator is constructed on it,
\* and the caller draws the tour with the documented loop
\*   for(It e(g[,start]); e!=INVALID; ++e) et.push_back(e);
\* emitted is the caller's vector et.

TypeOK ==
  /\ kind \in {"DiEulerIt", "EulerIt"}
  /\ nodeNum \in 0..MaxNodes
  /\ arcNum <= MaxArcs
  /\ pc \in {"new", "it"}
  /\ start \in 0..nodeNum

\* One naming per graph.  The arcs of a digraph are numbered so that the
\* out-lists follow each other; the order inside each out-list, which is all an
\* OutArcIt shows of the numbering, stays free.  An edge of an undirected
\* graph is written with its smaller end first; which of its two arcs is
\* called <<e,1>> is only a name.
CanonicalNaming ==
  /\ kind = "DiEulerIt" => \A e \in 1..(Len(arcSrc) - 1) : arcSrc[e] <= arcSrc[e + 1]
  /\ kind = "EulerIt" => \A e \in 1..Len(arcSrc) : arcSrc[e] <= arcTgt[e]

Init ==
  /\ kind \in {"DiEulerIt", "EulerIt"}
  /\ nodeNum \in 0..MaxNodes
  /\ \E m \in 0..MaxArcs :
       /\ arcSrc \in [1..m -> 1..nodeNum]
       /\ arcTgt \in [1..m -> 1..nodeNum]
  /\ CanonicalNaming
  /\ outList = [n \in 1..nodeNum |-> OutListOf(n)]
  /\ pc = "new"
  /\ start = INVALID
  /\ nedge = [n \in 1..nodeNum |-> 0]
  /\ visited = [e \in 1..Len(arcSrc) |-> FALSE]
  /\ euler = <<>>
  /\ emitted = <<>>
  /\ result = <<>>
  /\ seen = <<>>

\* DiEulerIt(const GR &gr, Node start = INVALID)
DiEulerItCtor(st) ==
  /\ pc = "new"
  /\ kind = "DiEulerIt"
  /\ pc' = "it"
  /\ start' = st
  /\ \E r \in {DiCtor(st)} : nedge' = r.nedge /\ euler' = r.euler
  /\ UNCHANGED <<graph, visited, emitted, result, seen>>

\* EulerIt(const GR &gr, Node start = INVALID)
EulerItCtor(st) ==
  /\ pc = "new"
  /\ kind = "EulerIt"
  /\ pc' = "it"
  /\ start' = st
  /\ \E r \in {UCtor(st)} :
       nedge' = r.nedge /\ visited' = r.visited /\ euler' = r.euler
  /\ UNCHANGED <<graph, emitted, result, seen>>

\* One round of the caller's loop on a DiEulerIt: e!=INVALID, read, ++e.
DiEulerItInc ==
  /\ pc = "it"
  /\ kind = "DiEulerIt"
  /\ NeInvalid(euler)
  /\ emitted' = Append(emitted, Current(euler))
  /\ \E r \in {DiInc(nedge, euler)} : nedge' = r.nedge /\ euler' = r.euler
  /\ seen' = <<>>
  /\ UNCHANGED <<graph, pc, start, visited, result>>

\* One round of the caller's loop on an EulerIt.
EulerItInc ==
  /\ pc = "it"
  /\ kind = "EulerIt"
  /\ NeInvalid(euler)
  /\ emitted' = Append(emitted, Current(euler))
  /\ \E r \in {UInc(nedge, visited, euler)} :
       nedge' = r.nedge /\ visited' = r.visited /\ euler' = r.euler
  /\ seen' = <<>>
  /\ UNCHANGED <<graph, pc, start, result>>

Next ==
  \/ \E st \in 0..nodeNum : DiEulerItCtor(st)
  \/ \E st \in 0..nodeNum : EulerItCtor(st)
  \/ DiEulerItInc
  \/ EulerItInc

Spec == Init /\ [][Next]_vars

\* The caller reads a DiEulerIt: conversion to Arc, ==INVALID, !=INVALID.
DiEulerItInspect ==
  /\ pc = "it"
  /\ kind = "DiEulerIt"
  /\ seen' = <<[arc |-> Current(euler), eq |-> EqInvalid(euler),
               ne |-> NeInvalid(euler)]>>
  /\ UNCHANGED <<graph, pc, start, nedge, visited, euler, emitted, result>>

\* The caller reads an EulerIt: conversion to Arc and to Edge, ==, !=.
EulerItInspect ==
  /\ pc = "it"
  /\ kind = "EulerIt"
  /\ seen' = <<[arc |-> Current(euler), edge |-> CurrentEdge(euler),
               eq |-> EqInvalid(euler), ne |-> NeInvalid(euler)]>>
  /\ UNCHANGED <<graph, pc, start, nedge, visited, euler, emitted, result>>

InspectNext == Next \/ DiEulerItInspect \/ EulerItInspect

\* The iteration loop with reads of the iterator between the advances.
InspectSpec == Init /\ [][InspectNext]_vars

\* A call of eulerian(g), directed overload.
EulerianDirCall ==
  /\ kind = "DiEulerIt"
  /\ result' = <<eulerianDir>>
  /\ UNCHANGED <<graph, pc, start, nedge, visited, euler, emitted, seen>>

\* A call of eulerian(g), undirected overload.
EulerianUndirCall ==
  /\ kind = "EulerIt"
  /\ result' = <<eulerianUndir>>
  /\ UNCHANGED <<graph, pc, start, nedge, visited, euler, emitted, seen>>

EulerianNext == EulerianDirCall \/ EulerianUndirCall

\* eulerian() applied to every graph of Init.
EulerianSpec == Init /\ [][EulerianNext]_vars

\* The caller keeps advancing while the iterator is not INVALID.
FairSpec == Spec /\ WF_vars(Next)

----------------------------------------------------------------------------
\* Vocabulary of the properties.

Constructed == pc = "it"
Exhausted == pc = "it" /\ euler = <<>>
JustConstructed == pc = "it" /\ emitted = <<>>

SeqArcs(seq) == {seq[i] : i \in DOMAIN seq}
SeqEdges(seq) == {seq[i][1] : i \in DOMAIN seq}
NoDupArcs(seq) == \A i, j \in DOMAIN seq : i # j => seq[i] # seq[j]
NoDupEdges(seq) == \A i, j \in DOMAIN seq : i # j => seq[i][1] # seq[j][1]

\* Every arc (digraph) / every edge in one orientation (graph) exactly once.
FullOnce(seq) == Len(seq) = arcNum /\ SeqEdges(seq) = Edges
\* Last target equals first source; the empty sequence counts as closed.
Closed(seq) == seq = <<>> \/ target(seq[Len(seq)]) = source(seq[1])

HasOutArc(n) == \E e \in Edges : arcSrc[e] = n \/ (kind = "EulerIt" /\ arcTgt[e] = n)
Isolated(n) == \A e \in Edges : arcSrc[e] # n /\ arcTgt[e] # n
Balanced == \A n \in Nodes : countInArcs(n) = countOutArcs(n)
ArcsInOneComponent == \A e, f \in Edges : arcSrc[f] \in Reach({arcSrc[e]})
\* "Euler" as in the class documentation of DiEulerIt.
EulerDocumented == Balanced /\ ArcsInOneComponent

----------------------------------------------------------------------------
\* C1: on a digraph for which eulerian() is true, for every start argument,
\* the sequence drawn from a DiEulerIt until it equals INVALID contains every
\* arc exactly once and the target of its last arc is the source of its first.
C1_DiEulerianTour ==
  (kind = "DiEulerIt" /\ Exhausted /\ eulerianDir)
    => (FullOnce(emitted) /\ SeqArcs(emitted) = ArcSet /\ Closed(emitted))

\* Arcs 1->2, 2->1, 2->2 from node 1: the loop is spliced in by operator++.
C1_Witness ==
  /\ kind = "DiEulerIt" /\ Exhausted /\ eulerianDir
  /\ start = 1 /\ arcSrc = <<1, 2, 2>> /\ arcTgt = <<2, 1, 2>>
  /\ emitted = <<<<1, 1>>, <<3, 1>>, <<2, 1>>>>

\* C2: on an undirected graph for which eulerian() is true, for every start
\* argument, the sequence drawn from an EulerIt contains every edge exactly
\* once, in one orientation, and is closed.
C2_EulerianTour ==
  (kind = "EulerIt" /\ Exhausted /\ eulerianUndir)
    => (FullOnce(emitted) /\ NoDupEdges(emitted) /\ Closed(emitted))

\* Edges 1-2, 1-2 and a loop at 2, from node 1: the loop is spliced in.
C2_Witness ==
  /\ kind = "EulerIt" /\ Exhausted /\ eulerianUndir
  /\ start = 1 /\ arcSrc = <<1, 1, 2>> /\ arcTgt = <<2, 2, 2>>
  /\ emitted = <<<<1, 1>>, <<3, 1>>, <<2, 0>>>>

\* C3: on any undirected graph, the edges of the arcs already emitted and of
\* the arcs in the trail are pairwise distinct (no edge is emitted twice, in
\* either orientation).
C3_EdgeUnique ==
  (kind = "EulerIt" /\ Constructed) => NoDupEdges(emitted \o euler)

C3_Witness ==
  /\ kind = "EulerIt" /\ Exhausted /\ ~eulerianUndir
  /\ \E e \in Edges : arcSrc[e] = arcTgt[e]
  /\ \E e, f \in Edges : e # f /\ arcSrc[e] = arcSrc[f] /\ arcTgt[e] = arcTgt[f]
  /\ Len(emitted) >= 2

\* C4: on any digraph, the arcs already emitted and the arcs in the trail are
\* pairwise distinct.
C4_ArcUnique ==
  (kind = "DiEulerIt" /\ Constructed) => NoDupArcs(emitted \o euler)

C4_Witness ==
  /\ kind = "DiEulerIt" /\ Exhausted /\ ~eulerianDir
  /\ Len(emitted) >= 2 /\ start # INVALID

\* C5 as claimed: an iterator constructed with a start node that has no
\* outgoing arc is in the state of one constructed without a start node, so
\* its sequence is non-empty whenever the graph has an arc.
C5_FallbackClaimed ==
  (JustConstructed /\ start # INVALID /\ OutArcs(start) = <<>>)
    => /\ euler = IF kind = "DiEulerIt" THEN DiCtor(INVALID).euler
                                        ELSE UCtor(INVALID).euler
       /\ (arcNum > 0 => NeInvalid(euler))

\* C5 (amended): an iterator constructed with a start node that has no
\* outgoing arc equals INVALID from construction on and emits nothing,
\* whatever arcs the other nodes have.
C5_NoFallback ==
  (Constructed /\ start # INVALID /\ OutArcs(start) = <<>>)
    => (EqInvalid(euler) /\ emitted = <<>>)

C5_Witness ==
  /\ Constructed /\ start # INVALID /\ OutArcs(start) = <<>>
  /\ arcNum > 0 /\ EqInvalid(euler)

\* C6: on a digraph that is not Euler in the documented sense, the sequence
\* produced by DiEulerIt omits an arc or the target of its last arc differs
\* from the source of its first arc.
C6_NotFullOrClosed ==
  (kind = "DiEulerIt" /\ Exhausted /\ ~EulerDocumented)
    => ~(FullOnce(emitted) /\ Closed(emitted))

\* C7: on a graph without arcs, for every start argument, the iterator is
\* equal to INVALID right after construction, its current value is INVALID
\* and nothing is emitted.
C7_ArclessEmpty ==
  (Constructed /\ arcNum = 0)
    => (EqInvalid(euler) /\ Current(euler) = INVALID_ARC /\ emitted = <<>>)

C7_Witness ==
  Constructed /\ arcNum = 0 /\ nodeNum >= 2 /\ start # INVALID

\* The first arc of the produced sequence.
FirstStep == IF emitted # <<>> THEN emitted[1] ELSE Current(euler)
FirstNodeWithOutArc == CHOOSE n \in Nodes : HasOutArc(n) /\ \A m \in 1..(n - 1) : ~HasOutArc(m)

C9_TerminationAndBound ==
  /\ [](Constructed => Len(emitted) + Len(euler) <= arcNum)
  /\ <>Exhausted

C9_Witness == Exhausted /\ Len(emitted) = arcNum /\ arcNum >= 3

\* C10: on a balanced digraph whose arcs lie in one component, with isolated
\* nodes anywhere in the node order, a DiEulerIt constructed without a start
\* node produces every arc exactly once and a closed sequence, while
\* eulerian() is false when the digraph has an arc and an isolated node.
C10_OneNontrivialComponent ==
  (kind = "DiEulerIt" /\ Exhausted /\ start = INVALID /\ EulerDocumented)
    => /\ FullOnce(emitted) /\ SeqArcs(emitted) = ArcSet /\ Closed(emitted)
       /\ ((arcNum > 0 /\ \E n \in Nodes : Isolated(n)) => ~eulerianDir)

C10_Witness ==
  /\ kind = "DiEulerIt" /\ Exhausted /\ start = INVALID /\ EulerDocumented
  /\ Isolated(1) /\ arcNum >= 2 /\ ~eulerianDir /\ Len(emitted) = arcNum

----------------------------------------------------------------------------
\* Vocabulary of the eulerian() properties.

\* Connected, directions ignored: no proper non-empty set of nodes is closed
\* under adjacency.
OneComponent ==
  \A S \in SUBSET Nodes :
    (S # {} /\ S # Nodes)
      => \E e \in Edges : (arcSrc[e] \in S) # (arcTgt[e] \in S)

\* Number of edge ends at n (a loop has both of its ends at n).
Degree(n) ==
  Cardinality({e \in Edges : arcSrc[e] = n}) + Cardinality({e \in Edges : arcTgt[e] = n})
AllEven == \A n \in Nodes : Degree(n) % 2 = 0

\* The undirected check with the nodes enumerated in the opposite order.
RECURSIVE UndirScanReversed(_)
UndirScanReversed(n) ==
  IF n = INVALID THEN OneComponent
  ELSE IF Degree(n) % 2 # 0 THEN FALSE
  ELSE UndirScanReversed(n - 1)

\* The path 1 - 2 - 3.
PathGraph3 == nodeNum = 3 /\ arcSrc = <<1, 2>> /\ arcTgt = <<2, 3>>

Returned == result # <<>>
CallFrame == UNCHANGED <<graph, pc, start, nedge, visited, euler, emitted, seen>>

\* C11: the directed eulerian() returns true exactly if every node has as many
\* in-arcs as out-arcs and the digraph is connected with directions ignored;
\* true for no node and for one node without arcs, false for more than one
\* component; the call changes nothing but the caller's result.
C11_DirEulerian ==
  /\ []((kind = "DiEulerIt" /\ Returned) =>
          /\ result[1] = (Balanced /\ OneComponent)
          /\ (nodeNum <= 1 /\ arcNum = 0) => result[1]
          /\ ~OneComponent => ~result[1])
  /\ [][(kind = "DiEulerIt" /\ result' # result) => CallFrame]_vars

\* Two loops at two different nodes: balanced but not connected.
C11_Witness ==
  /\ kind = "DiEulerIt" /\ result = <<FALSE>>
  /\ Balanced /\ ~OneComponent /\ arcNum >= 2

\* C12: the undirected eulerian() returns true exactly if every node has an
\* even number of incident edges and the graph is connected; enumerating the
\* nodes in another order gives the same boolean; the path 1 - 2 - 3 gives
\* false.
C12_UndirEulerian ==
  (kind = "EulerIt" /\ Returned) =>
    /\ result[1] = (AllEven /\ OneComponent)
    /\ result[1] = UndirScanReversed(nodeNum)
    /\ PathGraph3 => ~result[1]

C12_Witness == kind = "EulerIt" /\ PathGraph3 /\ result = <<FALSE>>

----------------------------------------------------------------------------
\* C13: reading the iterator (conversion to Arc, to Edge for EulerIt, and the
\* comparisons with INVALID) leaves cursors, visited map and trail unchanged;
\* what is read is the arc at the front of the trail, or INVALID exactly when
\* the trail is empty, so repeated reads without an advance agree and the
\* iterator equals INVALID iff its trail is empty.
C13_InspectionPure ==
  /\ []((Constructed /\ seen # <<>>) =>
          /\ seen[1].arc = IF euler = <<>> THEN INVALID_ARC ELSE euler[1]
          /\ (seen[1].arc = INVALID_ARC) = (euler = <<>>)
          /\ seen[1].eq = (euler = <<>>)
          /\ seen[1].ne = (euler # <<>>)
          /\ kind = "EulerIt" =>
               seen[1].edge = IF euler = <<>> THEN INVALID ELSE euler[1][1])
  /\ [][seen' # <<>> =>
          /\ UNCHANGED <<nedge, visited, euler, emitted>>
          /\ seen # <<>> => seen' = seen]_vars

C13_Witness ==
  /\ kind = "EulerIt" /\ Constructed /\ seen # <<>>
  /\ Len(euler) >= 2 /\ emitted # <<>>

----------------------------------------------------------------------------
\* Each arc of seq ends where the next one starts.
Linked(seq) == \A i \in 1..(Len(seq) - 1) : target(seq[i]) = source(seq[i + 1])

\* C14: on any digraph and for every start, consecutive arcs of the sequence
\* produced by DiEulerIt are connected: the target of each emitted arc is the
\* source of the arc emitted next.
C14_Trail == (kind = "DiEulerIt" /\ Constructed) => Linked(emitted)

\* The walk the constructor made, and the nodes it visited.
InitialWalk == DiCtor(start).euler
InitialWalkNodes ==
  IF ChooseStart(start) = INVALID THEN {}
  ELSE {ChooseStart(start)} \cup {target(InitialWalk[i]) : i \in DOMAIN InitialWalk}
LeftAtVisited ==
  {a \in ArcSet : a \notin SeqArcs(InitialWalk) /\ source(a) \in InitialWalkNodes}

\* C15 as claimed: on any digraph, every arc the initial walk left over at
\* a node it visited has been emitted when the sequence is exhausted.
C15_PickedUpClaimed ==
  (kind = "DiEulerIt" /\ Exhausted) => LeftAtVisited \subseteq SeqArcs(emitted)

\* C15 (amended): on a digraph with in-degree equal to out-degree at every
\* node, every arc the initial walk left over at a node it visited has been
\* emitted by a later advance when the sequence is exhausted.
C15_PickedUpBalanced ==
  (kind = "DiEulerIt" /\ Exhausted /\ Balanced)
    => LeftAtVisited \subseteq SeqArcs(emitted)

C15_Witness ==
  /\ kind = "DiEulerIt" /\ Exhausted /\ Balanced
  /\ LeftAtVisited # {} /\ LeftAtVisited \subseteq SeqArcs(emitted)

----------------------------------------------------------------------------
\* The walk a step advance is expected to splice: from node s, take the arc at
\* the cursor of the current node (in EulerIt the next arc whose edge is not
\* visited), move to its target, until the current node has no such arc.
FreePos(ne, vis, s) ==
  CHOOSE p \in ne[s]..(Len(OutArcs(s)) + 1) :
    /\ p = Len(OutArcs(s)) + 1 \/ ~vis[edge(OutArcs(s)[p])]
    /\ \A q \in ne[s]..(p - 1) : vis[edge(OutArcs(s)[q])]

ExpectedWalk[w \in [s : Nodes, nedge : [Nodes -> Nat], visited : [Edges -> BOOLEAN]]] ==
  IF FreePos(w.nedge, w.visited, w.s) > Len(OutArcs(w.s))
    THEN <<>>
    ELSE <<OutArcs(w.s)[FreePos(w.nedge, w.visited, w.s)]>> \o
         ExpectedWalk[[s |-> target(OutArcs(w.s)[FreePos(w.nedge, w.visited, w.s)]),
                       nedge |-> [w.nedge EXCEPT ![w.s] = FreePos(w.nedge, w.visited, w.s) + 1],
                       visited |-> IF kind = "EulerIt"
                         THEN [w.visited EXCEPT
                                ![edge(OutArcs(w.s)[FreePos(w.nedge, w.visited, w.s)])] = TRUE]
                         ELSE w.visited]]

FrontOf(seq) == IF seq = <<>> THEN INVALID_ARC ELSE seq[1]
\* A step advance is the only step that lengthens emitted.
Advanced == Constructed /\ emitted' # emitted
WalkOfAdvance ==
  ExpectedWalk[[s |-> target(euler[1]), nedge |-> nedge, visited |-> visited]]

----------------------------------------------------------------------------
\* The node the tour starts at: the given start, else the first node with an
\* out-arc.
StartNode ==
  IF start # INVALID THEN start
  ELSE IF \E n \in Nodes : HasOutArc(n) THEN FirstNodeWithOutArc
  ELSE INVALID

\* The block of arcs an advance put in front of the rest of the trail.
SplicedBlock == SubSeq(euler', 1, Len(euler') - (Len(euler) - 1))

\* C17: on a digraph with eulerian() true, in every state after construction
\* the arcs emitted followed by the trail form one connected walk from the
\* start node back to the start node; each block spliced by an advance starts
\* and ends at the target of the arc removed, and that node has no unconsumed
\* out-arc afterwards.
C17_ClosedWalk ==
  /\ []((kind = "DiEulerIt" /\ Constructed /\ eulerianDir) =>
          /\ Linked(emitted \o euler)
          /\ (emitted \o euler) # <<>> =>
               /\ source((emitted \o euler)[1]) = StartNode
               /\ target((emitted \o euler)[Len(emitted) + Len(euler)]) = StartNode)
  /\ [][(kind = "DiEulerIt" /\ eulerianDir /\ Advanced) =>
          /\ SplicedBlock # <<>> =>
               /\ source(SplicedBlock[1]) = target(euler[1])
               /\ target(SplicedBlock[Len(SplicedBlock)]) = target(euler[1])
          /\ nedge'[target(euler[1])] > Len(OutArcs(target(euler[1])))]_vars

\* Arcs 1->2, 2->1, 2->2 from node 1, after the loop was spliced and emitted.
C17_Witness ==
  /\ kind = "DiEulerIt" /\ eulerianDir /\ start = 1
  /\ arcSrc = <<1, 2, 2>> /\ arcTgt = <<2, 1, 2>>
  /\ emitted = <<<<1, 1>>, <<3, 1>>>> /\ euler = <<<<2, 1>>>>

----------------------------------------------------------------------------
\* The arcs a step places into the trail: the whole trail for the
\* constructor, the spliced block for an advance.
Placed ==
  IF pc = "new" /\ pc' = "it" THEN euler'
  ELSE IF Advanced THEN SplicedBlock
  ELSE <<>>

VisitedEdges(vis) == {e \in Edges : vis[e]}

\* C18: for EulerIt, in every state after construction the edges marked
\* visited are exactly the edges of the arcs emitted or in the trail; no step
\* unmarks an edge; the edges a step marks are exactly the edges of the arcs
\* it places into the trail, each of them unvisited before the step and
\* placed once.
C18_VisitedBookkeeping ==
  /\ []((kind = "EulerIt" /\ Constructed) =>
          VisitedEdges(visited) = SeqEdges(emitted \o euler))
  /\ [][kind = "EulerIt" =>
          /\ VisitedEdges(visited) \subseteq VisitedEdges(visited')
          /\ VisitedEdges(visited') \ VisitedEdges(visited) = SeqEdges(Placed)
          /\ NoDupEdges(Placed)
          /\ \A i \in DOMAIN Placed : ~visited[edge(Placed[i])]]_vars

\* Edges 1-2, 1-2 and the loop 2-2 from node 1: the loop was spliced by the
\* first advance, its second copy and the reverse arcs were skipped.
C18_Witness ==
  /\ kind = "EulerIt" /\ start = 1
  /\ arcSrc = <<1, 1, 2>> /\ arcTgt = <<2, 2, 2>>
  /\ emitted = <<<<1, 1>>>> /\ euler = <<<<3, 1>>, <<2, 0>>>>
  /\ VisitedEdges(visited) = {1, 2, 3}

----------------------------------------------------------------------------
\* The out-arcs of n that lie before the cursor of n.
Passed(ne, n) == {OutArcs(n)[i] : i \in 1..(ne[n] - 1)}

\* The nodes the spliced walk leaves through one of their out-arcs.
SplicedSources == {source(SplicedBlock[i]) : i \in DOMAIN SplicedBlock}

\* C19: for DiEulerIt, no step moves a cursor backwards; in every state after
\* construction the out-arcs of a node before its cursor are exactly the
\* out-arcs of that node emitted or in the trail; an advance changes only
\* cursors of nodes on the walk it splices, moving each past exactly the arcs
\* of that node in the spliced walk.
C19_CursorBookkeeping ==
  /\ []((kind = "DiEulerIt" /\ Constructed) =>
          \A n \in Nodes :
            /\ nedge[n] \in 1..(Len(OutArcs(n)) + 1) \/ (nedge[n] = 0 /\ OutArcs(n) = <<>>)
            /\ Passed(nedge, n) = {a \in SeqArcs(emitted \o euler) : source(a) = n})
  /\ [][kind = "DiEulerIt" =>
          /\ \A n \in Nodes : nedge'[n] >= nedge[n]
          /\ Advanced =>
               \A n \in Nodes :
                 /\ nedge'[n] # nedge[n] => n \in SplicedSources
                 /\ Passed(nedge', n) \ Passed(nedge, n) =
                      {a \in SeqArcs(SplicedBlock) : source(a) = n}]_vars

\* Arcs 1->2, 2->1, 2->2 from node 1, after the first advance spliced the
\* loop at node 2: the cursor of node 2 moved, the cursor of node 1 did not.
C19_Witness ==
  /\ kind = "DiEulerIt" /\ start = 1
  /\ arcSrc = <<1, 2, 2>> /\ arcTgt = <<2, 1, 2>>
  /\ emitted = <<<<1, 1>>>> /\ euler = <<<<3, 1>>, <<2, 1>>>>
  /\ nedge = <<2, 3>>

====
